---- MODULE Spec2Model ----
(***************************************************************************)
(* The Governor contract of contracts/dao/lib.rs as a state machine.       *)
(*                                                                         *)
(* The storage fields of `Governor` are the variables; every #[ink(message)]*)
(* is one action.  A message runs as one transaction of the host: a panic  *)
(* (an `unwrap` of None or of Err, a division by zero) traps the contract, *)
(* the host reverts the storage and the caller sees no return value; the   *)
(* model records that outcome as the result "Panic".                       *)
(*                                                                         *)
(* `ensure!(x, y)` (lib.rs 257-264) returns Err(y) when x is TRUE.         *)
(*                                                                         *)
(* `last` and `e2e` are history variables: the latest call with its inputs *)
(* and result, and the progress of the sequence propose, vote For, execute.*)
(***************************************************************************)
EXTENDS Integers, FiniteSets, Sequences, TLC

VARIABLES governance_token, quorum, proposals, proposal_votes, votes,
          next_proposal_id, now, last, e2e

vars == <<governance_token, quorum, proposals, proposal_votes, votes,
          next_proposal_id, now, last, e2e>>

(***************************************************************************)
(* Bounds of the model.                                                    *)
(***************************************************************************)
NumAccounts == 2
MaxId == 0
MaxAmount == 1
MaxDuration == 1
MaxTime == 1
MaxSupply == 1
MaxBalance == 1
MaxTokens == 7

(***************************************************************************)
(* Program constants.                                                      *)
(***************************************************************************)
TestQuorum == 50
AcceptThreshold == 50

\* tests: const ONE_MINUTE: u64 = 60.
ONE_MINUTE == 60

\* `as u8` keeps the low 8 bits. The u32 counter and the u64/u128 sums stay far
\* below their widths for every value the bounds admit.
U8 == 256

Accounts == 1..NumAccounts

\* The address of the governance token contract given to the constructor; it
\* is no user account.
TokenAccounts == {0}
ProposalIds == 0..MaxId
Amounts == 0..MaxAmount
Durations == 0..MaxDuration
Quorums == {0, TestQuorum}
VoteType == {"Against", "For"}

\* The outcome of the cross-contract call PSP22::total_supply: the supply,
\* or QueryFailed when try_invoke returns an error.
QueryFailed == -1
SupplyOutcomes == {QueryFailed} \cup (0..MaxSupply)
Balances == 0..MaxBalance

GovernorError == {"AmountShouldNotBeZero", "DurationError", "ProposalNotFound",
                  "VotePeriodEnded", "ProposalAlreadyExecuted", "AlreadyVoted",
                  "QuorumNotReached", "ProposalNotAccepted"}

Results == GovernorError \cup {"Ok", "Panic", "None"}

\* Mapping::new(): no key is set.
EmptyMapping == [k \in {} |-> 0]

\* Mapping::insert(key, value): sets or replaces the value under key.
Insert(m, key, value) == [k \in (DOMAIN m) \cup {key} |-> IF k = key THEN value ELSE m[k]]

\* The record of a call; fields a call does not have hold None / -1.
NoCall == [op |-> "new", caller |-> 0, to |-> 0, amount |-> -1, duration |-> -1,
           id |-> -1, vote |-> "None", supply |-> -1, balance |-> -1,
           at |-> 0, res |-> "None", ret |-> -1]

(***************************************************************************)
(* Governor::new                                                           *)
(***************************************************************************)
Init ==
    /\ governance_token \in TokenAccounts
    /\ quorum \in Quorums
    /\ proposals = EmptyMapping
    /\ proposal_votes = EmptyMapping
    /\ votes = {}
    /\ next_proposal_id = 0
    /\ now = 0
    /\ last = NoCall
    /\ e2e = 0

(***************************************************************************)
(* Governor::propose                                                       *)
(***************************************************************************)
ProposeResultNoDurationCheck(amount, duration) ==
    IF amount = 0 THEN "AmountShouldNotBeZero" ELSE "Ok"

ProposeResult(amount, duration) ==
    IF amount = 0 THEN "AmountShouldNotBeZero"
    ELSE IF duration = 0 THEN "DurationError"
    ELSE "Ok"

NewProposal(to, amount, duration) ==
    [to |-> to, vote_start |-> now, vote_end |-> duration,
     executed |-> FALSE, amount |-> amount]

\* propose that also creates the proposal's (zero) tally.
proposeCreatesTally(to, amount, duration) ==
    LET res == ProposeResult(amount, duration) IN
    /\ proposals' = IF res = "Ok"
                    THEN Insert(proposals, next_proposal_id,
                                NewProposal(to, amount, duration))
                    ELSE proposals
    /\ proposal_votes' = IF res = "Ok"
                         THEN Insert(proposal_votes, next_proposal_id,
                                     [for_votes |-> 0, against_vote |-> 0])
                         ELSE proposal_votes
    /\ last' = [NoCall EXCEPT !.op = "propose", !.to = to, !.amount = amount,
                              !.duration = duration, !.at = now, !.res = res]
    /\ e2e' = IF res = "Ok" THEN 1 ELSE 0
    /\ UNCHANGED <<governance_token, quorum, votes, next_proposal_id, now>>

\* propose that advances the id counter after a successful insert.
proposeAdvancesCounter(to, amount, duration) ==
    LET res == ProposeResult(amount, duration) IN
    /\ proposals' = IF res = "Ok"
                    THEN Insert(proposals, next_proposal_id,
                                NewProposal(to, amount, duration))
                    ELSE proposals
    /\ next_proposal_id' = IF res = "Ok" THEN next_proposal_id + 1
                           ELSE next_proposal_id
    /\ last' = [NoCall EXCEPT !.op = "propose", !.to = to, !.amount = amount,
                              !.duration = duration, !.at = now, !.res = res]
    /\ e2e' = IF res = "Ok" THEN 1 ELSE 0
    /\ UNCHANGED <<governance_token, quorum, proposal_votes, votes, now>>

propose(to, amount, duration) ==
    LET res == ProposeResult(amount, duration) IN
    /\ proposals' = IF res = "Ok"
                    THEN Insert(proposals, next_proposal_id,
                                NewProposal(to, amount, duration))
                    ELSE proposals
    /\ last' = [NoCall EXCEPT !.op = "propose", !.to = to, !.amount = amount,
                              !.duration = duration, !.at = now, !.res = res]
    /\ e2e' = IF res = "Ok" THEN 1 ELSE 0
    /\ UNCHANGED <<governance_token, quorum, proposal_votes, votes,
                   next_proposal_id, now>>

Propose ==
    \E to \in Accounts, amount \in Amounts, duration \in Durations :
        propose(to, amount, duration)

(***************************************************************************)
(* Governor::vote                                                          *)
(***************************************************************************)
\* weight = self.env().balance() / total_supply (u128 division).
Weight(balance, supply) == balance \div supply

\* Lines 141-149: total_supply.unwrap().unwrap() traps on a failed query and
\* the u128 division traps on a zero supply; otherwise the weight is computed.
WeightResult(supply) ==
    IF supply = QueryFailed THEN "Panic"
    ELSE IF supply = 0 THEN "Panic"
    ELSE "Ok"

VoteResult(proposal_id, caller, supply) ==
    IF proposal_id \notin DOMAIN proposals THEN "ProposalNotFound"
    ELSE IF proposals[proposal_id].executed = TRUE THEN "ProposalAlreadyExecuted"
    ELSE IF proposals[proposal_id].vote_end > now THEN "VotePeriodEnded"
    ELSE IF <<proposal_id, caller>> \notin votes THEN "AlreadyVoted"
    ELSE IF WeightResult(supply) = "Panic" THEN "Panic"
    ELSE IF proposal_id \notin DOMAIN proposal_votes THEN "Panic"
    ELSE "Ok"

\* The value of the `match vote` expression, which the code drops.
VoteSum(proposal_id, choice, balance, supply) ==
    IF choice = "For"
    THEN proposal_votes[proposal_id].for_votes + Weight(balance, supply)
    ELSE proposal_votes[proposal_id].against_vote + Weight(balance, supply)

\* vote with the record of line 139 written ahead of the guards and kept on
\* every outcome.
voteRecordsBeforeChecks(proposal_id, choice, caller, balance, supply) ==
    /\ votes' = votes \cup {<<proposal_id, caller>>}
    /\ last' = [NoCall EXCEPT !.op = "vote", !.caller = caller, !.id = proposal_id,
                              !.vote = choice, !.supply = supply,
                              !.balance = balance, !.at = now,
                              !.res = VoteResult(proposal_id, caller, supply)]
    /\ e2e' = 0
    /\ UNCHANGED <<governance_token, quorum, proposals, proposal_votes,
                   next_proposal_id, now>>

vote(proposal_id, choice, caller, balance, supply) ==
    LET res == VoteResult(proposal_id, caller, supply) IN
    /\ votes' = IF res = "Ok" THEN votes \cup {<<proposal_id, caller>>} ELSE votes
    /\ last' = [NoCall EXCEPT !.op = "vote", !.caller = caller, !.id = proposal_id,
                              !.vote = choice, !.supply = supply,
                              !.balance = balance, !.at = now, !.res = res,
                              !.ret = IF res = "Ok"
                                      THEN VoteSum(proposal_id, choice, balance, supply)
                                      ELSE -1]
    /\ e2e' = IF e2e = 1 /\ proposal_id = 0 /\ choice = "For" THEN 2 ELSE 0
    /\ UNCHANGED <<governance_token, quorum, proposals, proposal_votes,
                   next_proposal_id, now>>

Vote ==
    \E proposal_id \in ProposalIds, choice \in VoteType, caller \in Accounts,
       balance \in Balances, supply \in SupplyOutcomes :
        vote(proposal_id, choice, caller, balance, supply)

(***************************************************************************)
(* Governor::execute                                                       *)
(***************************************************************************)
ExecuteResult(proposal_id, caller) ==
    IF proposal_id \notin DOMAIN proposals THEN "ProposalNotFound"
    ELSE IF proposals[proposal_id].executed = TRUE THEN "ProposalAlreadyExecuted"
    ELSE IF proposal_id \notin DOMAIN proposal_votes THEN "Panic"
    ELSE IF ((proposal_votes[proposal_id].for_votes
              + proposal_votes[proposal_id].against_vote) % U8) < quorum
         THEN "QuorumNotReached"
    ELSE IF proposal_votes[proposal_id].for_votes >= AcceptThreshold
         THEN "ProposalNotAccepted"
    ELSE IF <<proposal_id, caller>> \notin votes THEN "AlreadyVoted"
    ELSE "Ok"

\* Line 170 sets `executed` on the copy that Mapping::get returned; nothing
\* is written back, so the storage is the same after every outcome.
execute(proposal_id, caller) ==
    LET res == ExecuteResult(proposal_id, caller) IN
    /\ last' = [NoCall EXCEPT !.op = "execute", !.caller = caller,
                              !.id = proposal_id, !.at = now, !.res = res]
    /\ e2e' = IF e2e = 2 /\ proposal_id = 0 THEN 3 ELSE 0
    /\ UNCHANGED <<governance_token, quorum, proposals, proposal_votes, votes,
                   next_proposal_id, now>>

Execute ==
    \E proposal_id \in ProposalIds, caller \in Accounts :
        execute(proposal_id, caller)

(***************************************************************************)
(* The read-only messages.                                                 *)
(***************************************************************************)
\* Governor::next_proposal_id returns the counter plus one (u32).
next_proposal_id_message == next_proposal_id + 1

\* Governor::get_proposal unwraps the stored entry: a missing id panics.
GetProposalResult(proposal_id) ==
    IF proposal_id \in DOMAIN proposals THEN "Ok" ELSE "Panic"

get_proposal(proposal_id) ==
    /\ last' = [NoCall EXCEPT !.op = "get_proposal", !.id = proposal_id,
                              !.at = now, !.res = GetProposalResult(proposal_id)]
    /\ e2e' = 0
    /\ UNCHANGED <<governance_token, quorum, proposals, proposal_votes, votes,
                   next_proposal_id, now>>

GetProposal == \E proposal_id \in ProposalIds : get_proposal(proposal_id)

NextProposalId ==
    /\ last' = [NoCall EXCEPT !.op = "next_proposal_id", !.at = now,
                              !.res = "Ok", !.ret = next_proposal_id_message]
    /\ e2e' = 0
    /\ UNCHANGED <<governance_token, quorum, proposals, proposal_votes, votes,
                   next_proposal_id, now>>

(***************************************************************************)
(* The host: block_timestamp advances between transactions.                *)
(***************************************************************************)
Tick ==
    /\ now < MaxTime
    /\ now' = now + 1
    /\ last' = [NoCall EXCEPT !.op = "tick", !.at = now + 1]
    /\ e2e' = 0
    /\ UNCHANGED <<governance_token, quorum, proposals, proposal_votes, votes,
                   next_proposal_id>>

Next == Propose \/ Vote \/ Execute \/ GetProposal \/ NextProposalId \/ Tick

Spec == Init /\ [][Next]_vars

(***************************************************************************)
(* The weight computation of vote (lines 140-149) on its own: the contract *)
(* balance and the outcome of the total_supply query are its only inputs.  *)
(* WeightSpec applies it to every input within MaxTokens.                  *)
(***************************************************************************)
TokenAmounts == 0..MaxTokens

VoteWeight ==
    \E balance \in TokenAmounts, supply \in {QueryFailed} \cup TokenAmounts :
        /\ last' = [NoCall EXCEPT !.op = "weight", !.balance = balance,
                                  !.supply = supply, !.at = now,
                                  !.res = WeightResult(supply),
                                  !.ret = IF WeightResult(supply) = "Ok"
                                          THEN Weight(balance, supply)
                                          ELSE -1]
        /\ UNCHANGED <<governance_token, quorum, proposals, proposal_votes,
                       votes, next_proposal_id, now, e2e>>

NextWeight == VoteWeight

WeightSpec == Init /\ [][NextWeight]_vars

TypeOK ==
    /\ governance_token \in TokenAccounts
    /\ quorum \in Quorums
    /\ DOMAIN proposals \subseteq ProposalIds
    /\ DOMAIN proposal_votes \subseteq ProposalIds
    /\ votes \subseteq (ProposalIds \X Accounts)
    /\ next_proposal_id \in Nat
    /\ now \in 0..MaxTime
    /\ last.res \in Results
    /\ e2e \in 0..3

(***************************************************************************)
(* Reading the stores the way the claims speak of them: a proposal with no *)
(* stored tally has zero votes on both sides.                              *)
(***************************************************************************)
Exists(id) == id \in DOMAIN proposals

ForVotes(id) == IF id \in DOMAIN proposal_votes THEN proposal_votes[id].for_votes ELSE 0

AgainstVotes(id) == IF id \in DOMAIN proposal_votes THEN proposal_votes[id].against_vote ELSE 0

TotalVotes(id) == ForVotes(id) + AgainstVotes(id)

\* The step is a call of message op (every call writes `last`).
IsCall(op) == last'.op = op

(***************************************************************************)
(* C3: a vote on an existing, unexecuted proposal, inside the window       *)
(* (now < vote_end), by an account with no vote record, with a positive    *)
(* total supply, returns Ok, inserts exactly (P, caller) into the vote     *)
(* records and adds the weight to the chosen side of the stored tally,     *)
(* leaving the other side as it was.  The code rejects it instead.         *)
(***************************************************************************)
C3_Precondition ==
    /\ IsCall("vote")
    /\ Exists(last'.id)
    /\ proposals[last'.id].executed = FALSE
    /\ now < proposals[last'.id].vote_end
    /\ <<last'.id, last'.caller>> \notin votes
    /\ last'.supply > 0

C3_Effect ==
    /\ last'.res = "Ok"
    /\ votes' = votes \cup {<<last'.id, last'.caller>>}
    /\ last'.id \in DOMAIN proposal_votes'
    /\ IF last'.vote = "For"
       THEN /\ proposal_votes'[last'.id].for_votes
                 = ForVotes(last'.id) + Weight(last'.balance, last'.supply)
            /\ proposal_votes'[last'.id].against_vote = AgainstVotes(last'.id)
       ELSE /\ proposal_votes'[last'.id].against_vote
                 = AgainstVotes(last'.id) + Weight(last'.balance, last'.supply)
            /\ proposal_votes'[last'.id].for_votes = ForVotes(last'.id)

C3_AcceptedVoteIsRecorded == [][C3_Precondition => C3_Effect]_vars

(***************************************************************************)
(* C4: a vote on an existing proposal at now >= vote_end returns           *)
(* VotePeriodEnded and leaves the tally and the vote records unchanged; a  *)
(* vote at now < vote_end is never rejected with VotePeriodEnded.  The     *)
(* code's guard is the other way round.                                    *)
(***************************************************************************)
C4_VoteWindowEnforced ==
    [][(IsCall("vote") /\ Exists(last'.id)) =>
          /\ (now >= proposals[last'.id].vote_end =>
                 /\ last'.res = "VotePeriodEnded"
                 /\ UNCHANGED <<proposal_votes, votes>>)
          /\ (now < proposals[last'.id].vote_end =>
                 last'.res # "VotePeriodEnded")]_vars

(***************************************************************************)
(* C5: propose with amount = 0 returns AmountShouldNotBeZero, propose with *)
(* amount > 0 and duration = 0 returns DurationError, and in both cases    *)
(* the proposal store and the id counter are unchanged.                    *)
(***************************************************************************)
C5_ProposeValidatesInput ==
    [][IsCall("propose") =>
          /\ (last'.amount = 0 =>
                 /\ last'.res = "AmountShouldNotBeZero"
                 /\ UNCHANGED <<proposals, next_proposal_id>>)
          /\ (last'.amount > 0 /\ last'.duration = 0 =>
                 /\ last'.res = "DurationError"
                 /\ UNCHANGED <<proposals, next_proposal_id>>)]_vars

\* A propose with a zero duration was rejected while a proposal is stored.
C5_Witness ==
    /\ last.op = "propose"
    /\ last.amount > 0
    /\ last.duration = 0
    /\ last.res = "DurationError"
    /\ Exists(0)

(***************************************************************************)
(* C6: after propose(target, amount, duration) with amount > 0 and         *)
(* duration > 0 at host time now, a stored proposal has to = target,       *)
(* amount = amount, vote_start = now, vote_end = now + duration and        *)
(* executed = FALSE, and every stored proposal has vote_end > vote_start.  *)
(* The code stores vote_end = duration.                                    *)
(***************************************************************************)
C6_ProposeStoresWindow ==
    [][(IsCall("propose") /\ last'.amount > 0 /\ last'.duration > 0) =>
          /\ \E id \in DOMAIN proposals' :
                proposals'[id] = [to |-> last'.to, amount |-> last'.amount,
                                  vote_start |-> now,
                                  vote_end |-> now + last'.duration,
                                  executed |-> FALSE]
          /\ \A id \in DOMAIN proposals' :
                proposals'[id].vote_end > proposals'[id].vote_start]_vars

(***************************************************************************)
(* C7: every successful propose advances the id counter by exactly one and *)
(* writes under an id that held no proposal, so the number of stored       *)
(* proposals grows by one.  The code never advances the counter.           *)
(***************************************************************************)
C7_ProposalIdsUnique ==
    [][(IsCall("propose") /\ last'.res = "Ok") =>
          /\ next_proposal_id' = next_proposal_id + 1
          /\ Cardinality(DOMAIN proposals') = Cardinality(DOMAIN proposals) + 1]_vars

(***************************************************************************)
(* C8: under quorum 50, the sequence propose, vote For on proposal 0,      *)
(* execute(0) ends with execute returning Ok and proposal 0 stored with    *)
(* executed = TRUE.  In the code the vote is rejected and execute traps.   *)
(***************************************************************************)
C8_PassingProposalExecutes ==
    (e2e = 3 /\ quorum = TestQuorum) =>
        /\ last.res = "Ok"
        /\ Exists(0)
        /\ proposals[0].executed = TRUE

(***************************************************************************)
(* C9: execute on an existing, unexecuted proposal returns QuorumNotReached*)
(* when for_votes + against_votes is below the quorum (also when no vote   *)
(* was accepted) and leaves executed = FALSE; it does not return           *)
(* QuorumNotReached when the total meets the quorum.  The code traps on    *)
(* the missing tally.                                                      *)
(***************************************************************************)
C9_QuorumGate ==
    [][(IsCall("execute") /\ Exists(last'.id)
        /\ proposals[last'.id].executed = FALSE) =>
          /\ (TotalVotes(last'.id) < quorum =>
                 /\ last'.res = "QuorumNotReached"
                 /\ proposals'[last'.id].executed = FALSE)
          /\ (TotalVotes(last'.id) >= quorum =>
                 last'.res # "QuorumNotReached")]_vars

(***************************************************************************)
(* C10: execute on an existing, unexecuted proposal whose total meets the  *)
(* quorum returns ProposalNotAccepted exactly when for_votes <=            *)
(* against_votes, and then leaves executed = FALSE.  With quorum 0 and no  *)
(* votes the code traps instead.                                           *)
(***************************************************************************)
C10_MajorityGate ==
    [][(IsCall("execute") /\ Exists(last'.id)
        /\ proposals[last'.id].executed = FALSE
        /\ TotalVotes(last'.id) >= quorum) =>
          /\ (last'.res = "ProposalNotAccepted"
                 <=> ForVotes(last'.id) <= AgainstVotes(last'.id))
          /\ (last'.res = "ProposalNotAccepted" =>
                 proposals'[last'.id].executed = FALSE)]_vars

(***************************************************************************)
(* C11: a propose, vote or execute call that does not return Ok (an error  *)
(* value or a trap) leaves the proposal store, the tallies, the vote       *)
(* records and the id counter exactly as they were, and after a vote call  *)
(* that did not return Ok no vote record for (P, caller) exists.           *)
(***************************************************************************)
C11_FailureAtomicity ==
    [][((IsCall("propose") \/ IsCall("vote") \/ IsCall("execute"))
        /\ last'.res # "Ok") =>
          /\ UNCHANGED <<proposals, proposal_votes, votes, next_proposal_id>>
          /\ (IsCall("vote") => <<last'.id, last'.caller>> \notin votes')]_vars

\* A vote on a stored proposal was rejected after the window check.
C11_Witness ==
    /\ last.op = "vote"
    /\ Exists(last.id)
    /\ last.res = "AlreadyVoted"
    /\ <<last.id, last.caller>> \notin votes

(***************************************************************************)
(* C12: for an id with no stored proposal, vote(id, _), execute(id) and    *)
(* get_proposal(id) each return the error value ProposalNotFound and       *)
(* change no state.  get_proposal unwraps the missing entry and traps.     *)
(***************************************************************************)
C12_UnknownIdIsAnErrorValue ==
    [][((IsCall("vote") \/ IsCall("execute") \/ IsCall("get_proposal"))
        /\ ~Exists(last'.id)) =>
          /\ last'.res = "ProposalNotFound"
          /\ UNCHANGED <<proposals, proposal_votes, votes, next_proposal_id>>]_vars

(***************************************************************************)
(* C14: after a successful propose(to, amount, duration) at host time now, *)
(* the stored proposal has the given to and amount, vote_start = now,      *)
(* vote_end = now + duration * ONE_MINUTE and executed = FALSE, as the     *)
(* test propose_works asserts.  The code stores vote_end = duration.       *)
(***************************************************************************)
C14_DurationInMinutes ==
    [][(IsCall("propose") /\ last'.res = "Ok") =>
          /\ Exists(0)'
          /\ proposals'[0] = [to |-> last'.to, amount |-> last'.amount,
                              vote_start |-> now,
                              vote_end |-> now + last'.duration * ONE_MINUTE,
                              executed |-> FALSE]]_vars

(***************************************************************************)
(* C15: a stored proposal is never removed or replaced and its to, amount, *)
(* vote_start and vote_end never change; the only change to a stored entry *)
(* is execute setting executed to TRUE.  A second propose writes under the *)
(* same id 0 and replaces the entry.                                       *)
(***************************************************************************)
C15_StoredProposalsImmutable ==
    [][\A id \in DOMAIN proposals :
          /\ id \in DOMAIN proposals'
          /\ proposals'[id].to = proposals[id].to
          /\ proposals'[id].amount = proposals[id].amount
          /\ proposals'[id].vote_start = proposals[id].vote_start
          /\ proposals'[id].vote_end = proposals[id].vote_end
          /\ (proposals'[id] # proposals[id] =>
                 /\ IsCall("execute")
                 /\ proposals'[id].executed = TRUE)]_vars

C19_NoVoteIsEverRecorded ==
    /\ votes = {}
    /\ DOMAIN proposal_votes = {}
    /\ (last.op = "vote" =>
           /\ last.res # "Ok"
           /\ (last.res \notin {"ProposalNotFound", "ProposalAlreadyExecuted",
                                "VotePeriodEnded"}
                  => last.res = "AlreadyVoted"))

\* A first vote on a stored proposal, after its vote_end, came back AlreadyVoted.
C19_Witness ==
    /\ last.op = "vote"
    /\ last.vote = "For"
    /\ Exists(last.id)
    /\ proposals[last.id].vote_end <= now
    /\ last.res = "AlreadyVoted"
    /\ votes = {}

(***************************************************************************)
(* C20: in every reachable state the id counter is 0, the proposal store   *)
(* holds at most the entry under id 0, no stored proposal is executed and  *)
(* no execute call has returned Ok; the entry under id 0 holds the         *)
(* arguments of the most recent successful propose (a successful propose   *)
(* writes them, and no other step changes the store).                      *)
(***************************************************************************)
C20_State ==
    /\ next_proposal_id = 0
    /\ DOMAIN proposals \subseteq {0}
    /\ \A id \in DOMAIN proposals : proposals[id].executed = FALSE
    /\ (last.op = "execute" => last.res # "Ok")
    /\ ((last.op = "propose" /\ last.res = "Ok") =>
           /\ Exists(0)
           /\ proposals[0] = [to |-> last.to, amount |-> last.amount,
                              vote_start |-> last.at, vote_end |-> last.duration,
                              executed |-> FALSE])

C20_SingleSlotNeverExecuted ==
    /\ []C20_State
    /\ [][~(IsCall("propose") /\ last'.res = "Ok") => proposals' = proposals]_vars

\* execute on the stored proposal did not return Ok and the counter is still 0.
C20_Witness ==
    /\ last.op = "execute"
    /\ Exists(last.id)
    /\ last.res = "Panic"
    /\ next_proposal_id = 0

====
